---- MODULE Spec2Model ----
(***************************************************************************)
(* Model of the constrained analytical query tools of chatbot_agent:       *)
(*   scripts/utils/tool_logger.py   the usage audit log                    *)
(*   scripts/agent_tools/tools.py   the five query / plot tools            *)
(*   scripts/agent_script.py        the conversational session loop        *)
(*                                                                         *)
(* Python lists and dicts are objects: the log holds REFERENCES to entry   *)
(* dicts, so the entries live in a heap (entries) and the log, snapshots   *)
(* and interaction records hold indices into it.                           *)
(*                                                                         *)
(* Text is modelled as a sequence of tokens, so that building a query is   *)
(* a concatenation that can be inspected afterwards.                       *)
(***************************************************************************)
EXTENDS Integers, Sequences, FiniteSets, TLC

\* ------------------------------------------------------------------------
\* Bounds of the model
\* ------------------------------------------------------------------------
MaxCalls == 2
MaxHeld == 2
MaxTurns == 2
MaxMutations == 2

\* ------------------------------------------------------------------------
\* State
\* ------------------------------------------------------------------------
VARIABLES
    tool_usage_log,   \* tool_logger.tool_usage_log: list of references to entry dicts
    entries,          \* heap of entry dicts, indexed by reference
    clock,            \* datetime.now(), advanced at every reading
    held,             \* lists returned by get_tool_log that a direct caller holds
    recorded,         \* history: the entries appended since the last clear, as appended
    mutations,        \* history: number of caller mutations so far
    pc,               \* chatbot_interaction: position of the session loop
    questions_iter,   \* chatbot_interaction: questions_iter
    user_input,       \* chatbot_interaction: user_input
    conversation,     \* chatbot_interaction: conversation
    interaction_log,  \* chatbot_interaction: interaction_log
    turns,            \* history: number of turns started
    built,            \* history: tool calls since the last clear that reached query construction
    clears,           \* history: who cleared the log, one item per clear
    ncalls,           \* history: number of tool calls made
    lastCall,         \* history: what the last tool call did
    executed,         \* history: every statement handed to the data source, with its call
    openConns,        \* connections checked out of the engine and not returned
    files             \* files present in scripts/plots_output

logVars == <<tool_usage_log, entries, clock, recorded, clears, built>>
callerVars == <<held, mutations>>
sessionVars == <<pc, questions_iter, user_input, conversation, interaction_log, turns>>
toolVars == <<ncalls, lastCall, executed, openConns, files>>
vars == <<logVars, callerVars, sessionVars, toolVars>>

\* ------------------------------------------------------------------------
\* Helpers
\* ------------------------------------------------------------------------
Range(s) == {s[i] : i \in 1..Len(s)}

Last(s) == s[Len(s)]

\* The values of the entry dicts a list of references points to.
Deref(refs) == [i \in 1..Len(refs) |-> entries[refs[i]]]

\* ------------------------------------------------------------------------
\* tool_logger.py
\* ------------------------------------------------------------------------

\* A plausible slip: the entry is inserted at the front of the list.
log_tool_usage_front(tool_name, metadata) ==
    LET e == [tool_name |-> tool_name, timestamp |-> clock, metadata |-> metadata]
    IN  /\ entries' = Append(entries, e)
        /\ tool_usage_log' = <<Len(entries) + 1>> \o tool_usage_log
        /\ clock' = clock + 1
        /\ recorded' = Append(recorded, e)

\* log_tool_usage: a new dict is allocated and a reference to it appended.
log_tool_usage(tool_name, metadata) ==
    LET e == [tool_name |-> tool_name, timestamp |-> clock, metadata |-> metadata]
    IN  /\ entries' = Append(entries, e)
        /\ tool_usage_log' = Append(tool_usage_log, Len(entries) + 1)
        /\ clock' = clock + 1
        /\ recorded' = Append(recorded, e)

\* A plausible slip: the name is rebound to a new list and the log is left as it was.
clear_tool_log_keep(who) ==
    /\ clears' = Append(clears, who)
    /\ UNCHANGED <<tool_usage_log, recorded, built, entries, clock>>

\* clear_tool_log: tool_usage_log.clear(); the dicts themselves are untouched.
clear_tool_log(who) ==
    /\ tool_usage_log' = <<>>
    /\ recorded' = <<>>
    /\ clears' = Append(clears, who)
    /\ built' = 0
    /\ UNCHANGED <<entries, clock>>

\* get_tool_log: tool_usage_log.copy(), a new list holding the same references.
get_tool_log == tool_usage_log

\* ------------------------------------------------------------------------
\* A direct caller of tool_logger.py
\* ------------------------------------------------------------------------
LogToolNames == {"aggregate_metric_simple_where", "plot_trend"}

LogMetadata == {[metric |-> "revenue", agg |-> "sum", where_clause |-> ""],
                [metric |-> "cost", agg |-> "avg", where_clause |-> "year = 2023"]}

Record ==
    /\ Len(entries) < MaxCalls
    /\ \E t \in LogToolNames, m \in LogMetadata : log_tool_usage(t, m)
    /\ UNCHANGED <<clears, built, callerVars, sessionVars, toolVars>>

Reset ==
    /\ Len(clears) < MaxCalls
    /\ clear_tool_log("caller")
    /\ UNCHANGED <<callerVars, sessionVars, toolVars>>

Snapshot ==
    /\ Len(held) < MaxHeld
    /\ held' = Append(held, get_tool_log)
    /\ UNCHANGED <<logVars, mutations, sessionVars, toolVars>>

\* The caller changes a list it got from get_tool_log: list.append
HeldAppend ==
    /\ mutations < MaxMutations
    /\ \E i \in 1..Len(held), r \in 1..Len(entries) :
          held' = [held EXCEPT ![i] = Append(@, r)]
    /\ mutations' = mutations + 1
    /\ UNCHANGED <<logVars, sessionVars, toolVars>>

\* list.pop
HeldPop ==
    /\ mutations < MaxMutations
    /\ \E i \in 1..Len(held) :
          /\ held[i] # <<>>
          /\ held' = [held EXCEPT ![i] = SubSeq(@, 1, Len(@) - 1)]
    /\ mutations' = mutations + 1
    /\ UNCHANGED <<logVars, sessionVars, toolVars>>

\* snapshot[j]["tool_name"] = value: the dict is the one the log refers to
HeldSetField ==
    /\ mutations < MaxMutations
    /\ \E i \in 1..Len(held) : \E j \in 1..Len(held[i]) :
          entries' = [entries EXCEPT ![held[i][j]].tool_name = "edited"]
    /\ mutations' = mutations + 1
    /\ UNCHANGED <<tool_usage_log, clock, recorded, clears, built, held, sessionVars, toolVars>>

\* ------------------------------------------------------------------------
\* The data source: table marketing_data behind scripts/utils/db.py
\* ------------------------------------------------------------------------

\* Columns of the table (the DATAFRAME SCHEMA of the tool docstrings).
TableColumns == {"year", "quarter", "month", "week", "date", "country",
                 "media_category", "media_name", "communication",
                 "campaign_category", "product", "campaign_name",
                 "revenue", "cost", "profit", "roi", "margin",
                 "quarter_number", "month_number", "month_name"}

IntColumns == {"year", "week", "quarter_number", "month_number"}

\* Rows of the table. Dimension values are kept as text; ord is the numeric
\* value of month_number. Alphabetically April < February < January.
Dataset ==
    << [year |-> "2022", quarter |-> "2022 Q1", month |-> "2022M02", week |-> "6",
        date |-> "2022-02-07", country |-> "DK", media_category |-> "online",
        media_name |-> "search", communication |-> "always on",
        campaign_category |-> "brand", product |-> "Product 1", campaign_name |-> "c1",
        quarter_number |-> "1", month_number |-> "2", month_name |-> "February", ord |-> 2,
        revenue |-> 10, cost |-> 4, profit |-> 6, roi |-> 2, margin |-> 1],
       [year |-> "2023", quarter |-> "2023 Q1", month |-> "2023M01", week |-> "2",
        date |-> "2023-01-09", country |-> "DK", media_category |-> "tv",
        media_name |-> "tv2", communication |-> "launch",
        campaign_category |-> "brand", product |-> "Product 1", campaign_name |-> "c2",
        quarter_number |-> "1", month_number |-> "1", month_name |-> "January", ord |-> 1,
        revenue |-> 7, cost |-> 7, profit |-> 0, roi |-> 0, margin |-> 0],
       [year |-> "2023", quarter |-> "2023 Q2", month |-> "2023M04", week |-> "15",
        date |-> "2023-04-10", country |-> "SE", media_category |-> "online",
        media_name |-> "search", communication |-> "launch",
        campaign_category |-> "sales", product |-> "Product 2", campaign_name |-> "c3",
        quarter_number |-> "2", month_number |-> "4", month_name |-> "April", ord |-> 4,
        revenue |-> 20, cost |-> 5, profit |-> 15, roi |-> 3, margin |-> 1] >>

\* Free-text predicates the caller may pass, with the rows they select.
WhereInputs == {"", "year = 2023", "year = 1999"}

WhereSelects(w, row) ==
    CASE w = "" -> TRUE
      [] w = "year = 2023" -> row.year = "2023"
      [] w = "year = 1999" -> row.year = "1999"

RowsWhere(w) == LET T(row) == WhereSelects(w, row) IN SelectSeq(Dataset, T)

\* Numeric value of the text of an integer column
ToInt(s) ==
    CASE s = "1" -> 1 [] s = "2" -> 2 [] s = "4" -> 4 [] s = "6" -> 6
      [] s = "15" -> 15 [] s = "1999" -> 1999 [] s = "2022" -> 2022
      [] s = "2023" -> 2023 [] s = "2022-02-07" -> 20220207
      [] s = "2023-01-09" -> 20230109 [] s = "2023-04-10" -> 20230410

MetricColumns == {"revenue", "cost", "profit", "roi", "margin"}

\* Columns the data source can sum, average and compare as numbers
NumericColumns == MetricColumns \cup IntColumns

\* The number in a numeric column of a row
Cell(row, col) == IF col \in MetricColumns THEN row[col] ELSE ToInt(row[col])

\* agg(col) is a statement the data source can evaluate
Aggregable(agg, col) ==
    /\ agg \in {"sum", "avg", "min", "max", "count"}
    /\ col \in IF agg = "count" THEN TableColumns ELSE NumericColumns

\* An aggregate value: SQL NULL, or the rational num / den.
Null == [null |-> TRUE, num |-> 0, den |-> 1]

Num(n) == [null |-> FALSE, num |-> n, den |-> 1]

RECURSIVE SumOf(_, _)
SumOf(metric, rows) ==
    IF rows = <<>> THEN 0 ELSE Cell(rows[1], metric) + SumOf(metric, Tail(rows))

MinOf(metric, rows) ==
    CHOOSE v \in {Cell(rows[i], metric) : i \in 1..Len(rows)} :
        \A i \in 1..Len(rows) : v <= Cell(rows[i], metric)

MaxOf(metric, rows) ==
    CHOOSE v \in {Cell(rows[i], metric) : i \in 1..Len(rows)} :
        \A i \in 1..Len(rows) : v >= Cell(rows[i], metric)

\* agg(metric) over rows, as PostgreSQL computes it: count of no rows is 0,
\* every other aggregate of no rows is NULL.
Aggregate(agg, metric, rows) ==
    CASE agg = "count" -> Num(Len(rows))
      [] rows = <<>>   -> Null
      [] agg = "sum"   -> Num(SumOf(metric, rows))
      [] agg = "min"   -> Num(MinOf(metric, rows))
      [] agg = "max"   -> Num(MaxOf(metric, rows))
      [] agg = "avg"   -> [null |-> FALSE, num |-> SumOf(metric, rows), den |-> Len(rows)]

\* a < b for two non-NULL aggregate values
ValueLess(a, b) == a.num * b.den < b.num * a.den

\* All enumerations of the set S that never put b ahead of a when the pair
\* (a, b) is in before: the orders a data source may return rows in under
\* ORDER BY.
Orderings(S, before) ==
    {f \in [1..Cardinality(S) -> S] :
        /\ \A i, j \in 1..Cardinality(S) : i # j => f[i] # f[j]
        /\ \A i, j \in 1..Cardinality(S) : i < j => <<f[j], f[i]>> \notin before}

\* ------------------------------------------------------------------------
\* tools.py: what one call of a tool does
\*
\* A tool is a set of possible calls (the data source decides which one
\* happens). A call is a record:
\*   outcome  "rejected" (validation returned a rejection text),
\*            "returned" (a result came back) or "raised" (an exception left the tool)
\*   text     the returned text, or the exception
\*   detail   the values formatted into the text
\*   built    the query text was constructed
\*   logs     arguments of log_tool_usage, in call order
\*   stmts    statements handed to the data source: query text and bound parameters
\*   events   what the call did, in program order
\*   written  files written
\* ------------------------------------------------------------------------
Rejection(tool, args, text, detail) ==
    [tool |-> tool, args |-> args, outcome |-> "rejected", text |-> text,
     detail |-> detail, built |-> FALSE, logs |-> <<>>, stmts |-> <<>>,
     events |-> <<>>, written |-> {}]

\* engine.connect() fails: nothing was acquired, nothing was executed.
ConnectFailure(tool, args, logs, before) ==
    [tool |-> tool, args |-> args, outcome |-> "raised", text |-> "OperationalError",
     detail |-> <<>>, built |-> TRUE, logs |-> logs, stmts |-> <<>>,
     events |-> before \o <<"connect_failed">>, written |-> {}]

\* A plausible slip: the connection is not opened in a with block, so a
\* failing execute leaves it checked out.
ExecuteFailure_leak(tool, args, logs, before, stmt) ==
    [tool |-> tool, args |-> args, outcome |-> "raised", text |-> "DBAPIError",
     detail |-> <<>>, built |-> TRUE, logs |-> logs, stmts |-> <<stmt>>,
     events |-> before \o <<"connect", "execute">>, written |-> {}]

\* A plausible slip: the usage is logged after the query has run, so a
\* failing execute leaves no entry.
ExecuteFailure_unlogged(tool, args, logs, before, stmt) ==
    [tool |-> tool, args |-> args, outcome |-> "raised", text |-> "DBAPIError",
     detail |-> <<>>, built |-> TRUE, logs |-> <<>>, stmts |-> <<stmt>>,
     events |-> <<"connect", "execute", "release">>, written |-> {}]

\* con.execute() fails: the with block releases the connection on the way out.
ExecuteFailure(tool, args, logs, before, stmt) ==
    [tool |-> tool, args |-> args, outcome |-> "raised", text |-> "DBAPIError",
     detail |-> <<>>, built |-> TRUE, logs |-> logs, stmts |-> <<stmt>>,
     events |-> before \o <<"connect", "execute", "release">>, written |-> {}]

Returned(tool, args, logs, before, stmt, after, text, detail, written) ==
    [tool |-> tool, args |-> args, outcome |-> "returned", text |-> text,
     detail |-> detail, built |-> TRUE, logs |-> logs, stmts |-> <<stmt>>,
     events |-> before \o <<"connect", "execute", "release">> \o after,
     written |-> written]

\* ---------- aggregate_metric_simple_where ----------
\* A plausible slip: a numeric column that is no metric is let through.
simple_allowed_metrics_wide == {"revenue", "cost", "profit", "roi", "margin", "week"}

simple_allowed_metrics == {"revenue", "cost", "profit", "roi", "margin"}

simple_allowed_aggs == {"sum", "avg", "min", "max", "count"}

aggregate_metric_simple_where(metric, agg, where_clause) ==
    LET tool == "aggregate_metric_simple_where"
        args == [metric |-> metric, agg |-> agg, where_clause |-> where_clause]
    IN
    IF metric \notin simple_allowed_metrics
      THEN {Rejection(tool, args, "Invalid metric. Allowed: ", <<simple_allowed_metrics>>)}
    ELSE IF agg \notin simple_allowed_aggs
      THEN {Rejection(tool, args, "Invalid aggregation. Allowed: ", <<simple_allowed_aggs>>)}
    ELSE
      LET where_sql == IF where_clause # "" THEN <<"WHERE", where_clause>> ELSE <<>>
          query == <<"SELECT", agg, "(", metric, ")", "FROM", "marketing_data">> \o where_sql
          stmt == [query |-> query, params |-> <<>>]
          logs == <<[tool_name |-> tool,
                     metadata |-> [metric |-> metric, agg |-> agg,
                                   where_clause |-> where_clause]]>>
          \* the result set: an aggregate without GROUP BY yields exactly one
          \* row, whatever the predicate selects
          rows == <<<<Aggregate(agg, metric, RowsWhere(where_clause))>>>>
          \* fetchone() is None only for a result set without rows
          Format == IF rows = <<>>
                      THEN Returned(tool, args, logs, <<"log">>, stmt, <<>>,
                                    "No results.", <<>>, {})
                      ELSE Returned(tool, args, logs, <<"log">>, stmt, <<>>,
                                    "str(result[0])", <<rows[1][1]>>, {})
      IN  {ConnectFailure(tool, args, logs, <<"log">>),
           ExecuteFailure(tool, args, logs, <<"log">>, stmt)}
          \cup
          (IF Aggregable(agg, metric) THEN {Format} ELSE {})

\* ---------- aggregate_with_grouping ----------
grouping_allowed_metrics == {"revenue", "cost", "profit", "roi", "margin"}

grouping_allowed_aggs == {"sum", "avg", "min", "max", "count"}

\* The rows of SELECT group_by, agg(metric) ... GROUP BY group_by: one per
\* distinct value of the group column among the selected rows.
GroupRows(metric, agg, group_by, rows) ==
    LET keys == {rows[i][group_by] : i \in 1..Len(rows)}
        Of(k) == LET T(row) == row[group_by] = k IN SelectSeq(rows, T)
    IN  {[key |-> k, value |-> Aggregate(agg, metric, Of(k))] : k \in keys}

Prefix(seq, n) == SubSeq(seq, 1, IF n < Len(seq) THEN n ELSE Len(seq))

aggregate_with_grouping(metric, agg, group_by, where_clause, order_desc, limit) ==
    LET tool == "aggregate_with_grouping"
        args == [metric |-> metric, agg |-> agg, group_by |-> group_by,
                 where_clause |-> where_clause, order_desc |-> order_desc,
                 limit |-> limit]
    IN
    IF metric \notin grouping_allowed_metrics
      THEN {Rejection(tool, args, "Invalid metric. Allowed: ", <<grouping_allowed_metrics>>)}
    ELSE IF agg \notin grouping_allowed_aggs
      THEN {Rejection(tool, args, "Invalid aggregation. Allowed: ", <<grouping_allowed_aggs>>)}
    ELSE
      LET where_sql == IF where_clause # "" THEN <<"WHERE", where_clause>> ELSE <<>>
          group_sql == IF group_by # "" THEN <<"GROUP BY", group_by>> ELSE <<>>
          order_sql == IF group_by # ""
                         THEN <<"ORDER BY", agg, "(", metric, ")",
                                IF order_desc THEN "DESC" ELSE "ASC">>
                         ELSE <<>>
          limit_sql == IF limit > 0 THEN <<"LIMIT", ToString(limit)>> ELSE <<>>
          query == <<"SELECT">> \o (IF group_by # "" THEN <<group_by, ",">> ELSE <<>>)
                   \o <<agg, "(", metric, ")", "AS", "value", "FROM", "marketing_data">>
                   \o where_sql \o group_sql \o order_sql \o limit_sql
          stmt == [query |-> query, params |-> <<>>]
          logs == <<[tool_name |-> tool,
                     metadata |-> [metric |-> metric, agg |-> agg,
                                   where_clause |-> where_clause]]>>
          selected == RowsWhere(where_clause)
          groups == GroupRows(metric, agg, group_by, selected)
          before == {p \in groups \X groups :
                       IF order_desc THEN ValueLess(p[2].value, p[1].value)
                                     ELSE ValueLess(p[1].value, p[2].value)}
          \* the possible results of fetchall()
          fetched == IF group_by = ""
                       THEN {<<[value |-> Aggregate(agg, metric, selected)]>>}
                       ELSE {IF limit > 0 THEN Prefix(o, limit) ELSE o :
                               o \in Orderings(groups, before)}
          Format(rows) ==
              IF rows = <<>>
                THEN Returned(tool, args, logs, <<"log">>, stmt, <<>>,
                              "No results found.", <<>>, {})
              ELSE IF Len(rows) = 1 /\ group_by = ""
                THEN Returned(tool, args, logs, <<"log">>, stmt, <<>>,
                              "str(rows[0][0])", <<rows[1].value>>, {})
              ELSE Returned(tool, args, logs, <<"log">>, stmt, <<>>,
                            "join(str(row))", rows, {})
      IN  {ConnectFailure(tool, args, logs, <<"log">>),
           ExecuteFailure(tool, args, logs, <<"log">>, stmt)}
          \cup
          (IF Aggregable(agg, metric) /\ (group_by = "" \/ group_by \in TableColumns)
             THEN {Format(rows) : rows \in fetched}
             ELSE {})

\* ---------- plot_trend ----------
trend_allowed_metrics == {"revenue", "cost", "profit", "roi"}

trend_allowed_time_dims == {"month_name", "quarter_number", "year"}

\* str.split(","): the text between the commas; text is a sequence of
\* tokens, each a word, a blank " " or a comma ",".
RECURSIVE Split(_)
Split(text) ==
    IF \A i \in 1..Len(text) : text[i] # ","
      THEN <<text>>
      ELSE LET c == CHOOSE i \in 1..Len(text) :
                      text[i] = "," /\ \A j \in 1..(i - 1) : text[j] # ","
           IN  <<SubSeq(text, 1, c - 1)>> \o Split(SubSeq(text, c + 1, Len(text)))

\* str.strip(): without the leading and trailing blanks
RECURSIVE Strip(_)
Strip(text) ==
    IF text # <<>> /\ text[1] = " " THEN Strip(Tail(text))
    ELSE IF text # <<>> /\ Last(text) = " " THEN Strip(SubSeq(text, 1, Len(text) - 1))
    ELSE text

\* m in allowed, for a text m and a set of one-word names
InSet(m, allowed) == Len(m) = 1 /\ m[1] \in allowed

\* "sep".join(items)
RECURSIVE Join(_, _)
Join(sep, items) ==
    IF items = <<>> THEN <<>>
    ELSE IF Len(items) = 1 THEN items[1]
    ELSE items[1] \o sep \o Join(sep, Tail(items))

\* re.sub(r"[^a-zA-Z0-9_]", "_", where_clause) on the predicates of WhereInputs
Sanitize(w) ==
    CASE w = "" -> ""
      [] w = "year = 2023" -> "year___2023"
      [] w = "year = 1999" -> "year___1999"

\* A plausible slip: ORDER BY month_name, which sorts the names as text.
TrendKey_by_name(time_dimension, row) ==
    IF time_dimension = "month_name"
      THEN CASE row.month_name = "April" -> 1 [] row.month_name = "August" -> 2
             [] row.month_name = "December" -> 3 [] row.month_name = "February" -> 4
             [] row.month_name = "January" -> 5 [] row.month_name = "July" -> 6
             [] row.month_name = "June" -> 7 [] row.month_name = "March" -> 8
             [] row.month_name = "May" -> 9 [] row.month_name = "November" -> 10
             [] row.month_name = "October" -> 11 [] row.month_name = "September" -> 12
      ELSE ToInt(row[time_dimension])

\* The key ORDER BY sorts a row of the trend query by
TrendKey(time_dimension, row) ==
    IF time_dimension = "month_name" THEN row.ord ELSE ToInt(row[time_dimension])

\* The data frame of the trend query: one row per value of the time dimension
\* among the selected rows, with the sum of each metric, in ORDER BY order.
TrendFrame(metric_list, time_dimension, rows) ==
    LET keys == {TrendKey(time_dimension, rows[i]) : i \in 1..Len(rows)}
        Of(k) == LET T(row) == TrendKey(time_dimension, row) = k IN SelectSeq(rows, T)
        Line(k) == [dim |-> Of(k)[1][time_dimension],
                    sums |-> [i \in 1..Len(metric_list) |->
                                 SumOf(metric_list[i][1], Of(k))]]
        before == {p \in keys \X keys : p[1] < p[2]}
    IN  {[i \in 1..Len(o) |-> Line(o[i])] : o \in Orderings(keys, before)}

\* A plausible slip: the tabular file is written before the frame is tested.
trend_finish_csv_first(df, csv_path, png_path) ==
    IF df = <<>>
      THEN {[outcome |-> "returned", text |-> "No data found.",
             after |-> <<"to_csv">>, written |-> {csv_path}]}
      ELSE {[outcome |-> "raised", text |-> "OSError",
             after |-> <<"to_csv_failed">>, written |-> {}],
            [outcome |-> "raised", text |-> "OSError",
             after |-> <<"to_csv", "savefig_failed">>, written |-> {csv_path}],
            [outcome |-> "returned", text |-> "Plot generated successfully.",
             after |-> <<"to_csv", "savefig">>, written |-> {csv_path, png_path}]}

\* What plot_trend does with the data frame: nothing for an empty one;
\* otherwise df.to_csv, then plt.savefig, either of which may fail on the
\* output directory.
trend_finish(df, csv_path, png_path) ==
    IF df = <<>>
      THEN {[outcome |-> "returned", text |-> "No data found.",
             after |-> <<>>, written |-> {}]}
      ELSE {[outcome |-> "raised", text |-> "OSError",
             after |-> <<"to_csv_failed">>, written |-> {}],
            [outcome |-> "raised", text |-> "OSError",
             after |-> <<"to_csv", "savefig_failed">>, written |-> {csv_path}],
            [outcome |-> "returned", text |-> "Plot generated successfully.",
             after |-> <<"to_csv", "savefig">>, written |-> {csv_path, png_path}]}

plot_trend(metrics, time_dimension, where_clause) ==
    LET tool == "plot_trend"
        args == [metrics |-> metrics, time_dimension |-> time_dimension,
                 where_clause |-> where_clause]
        split == Split(metrics)
        metric_list == [i \in 1..Len(split) |-> Strip(split[i])]
        bad == {i \in 1..Len(metric_list) : ~InSet(metric_list[i], trend_allowed_metrics)}
    IN
    IF bad # {}
      THEN {Rejection(tool, args, "Invalid metric: ",
                      <<metric_list[CHOOSE i \in bad : \A j \in bad : i <= j]>>)}
    ELSE IF time_dimension \notin trend_allowed_time_dims
      THEN {Rejection(tool, args, "Invalid time dimension: ", <<time_dimension>>)}
    ELSE IF time_dimension \notin {"month_name", "quarter_number", "year", "date"}
      THEN {Rejection(tool, args, "Invalid time dimension.", <<>>)}
    ELSE
      LET where_sql == IF where_clause # "" THEN <<"WHERE", where_clause>> ELSE <<>>
          agg_sql == Join(<<",">>, [i \in 1..Len(metric_list) |->
                            <<"SUM", "(", metric_list[i][1], ")", "AS", metric_list[i][1]>>])
          group_sql == CASE time_dimension = "month_name" ->
                              <<"GROUP BY", "month_name", ",", "month_number">>
                         [] time_dimension = "quarter_number" ->
                              <<"GROUP BY", "quarter_number">>
                         [] time_dimension = "year" -> <<"GROUP BY", "year">>
                         [] time_dimension = "date" -> <<"GROUP BY", "date">>
          order_sql == CASE time_dimension = "month_name" -> <<"ORDER BY", "month_number">>
                         [] time_dimension = "quarter_number" ->
                              <<"ORDER BY", "quarter_number">>
                         [] time_dimension = "year" -> <<"ORDER BY", "year">>
                         [] time_dimension = "date" -> <<"ORDER BY", "date">>
          query == <<"SELECT", time_dimension, ",">> \o agg_sql
                   \o <<"FROM", "marketing_data">> \o where_sql \o group_sql \o order_sql
          stmt == [query |-> query, params |-> <<>>]
          safe_where == Sanitize(where_clause)
          safe_metrics == Join(<<"_">>, metric_list)
          stem == safe_metrics \o <<"_", time_dimension, "_", safe_where>>
          filename == stem \o <<".png">>
          csv_path == <<"scripts/plots_output/">> \o stem \o <<".csv">>
          png_path == <<"scripts/plots_output/">> \o filename
          frames == TrendFrame(metric_list, time_dimension, RowsWhere(where_clause))
          Finish(df) ==
              {[Returned(tool, args, <<>>, <<>>, stmt, f.after, f.text,
                         IF f.outcome = "returned" THEN df ELSE <<>>, f.written)
                  EXCEPT !.outcome = f.outcome] :
                 f \in trend_finish(df, csv_path, png_path)}
      IN  {ConnectFailure(tool, args, <<>>, <<>>),
           ExecuteFailure(tool, args, <<>>, <<>>, stmt)}
          \cup
          (IF \A i \in 1..Len(metric_list) : Aggregable("sum", metric_list[i][1])
             THEN UNION {Finish(df) : df \in frames}
             ELSE {})

\* ---------- plot_scatter_relationship ----------
scatter_allowed_metrics == {"revenue", "cost", "profit", "roi", "margin"}

scatter_allowed_categories == {"campaign_name", "campaign_category", "media_category",
                               "product", "country"}

\* marketing_df is a global that tools.py neither defines nor imports: the
\* call ends in NameError unless the host has put a frame into the module.
plot_scatter_relationship(x_metric, y_metric, category_dimension, year) ==
    LET tool == "plot_scatter_relationship"
        args == [x_metric |-> x_metric, y_metric |-> y_metric,
                 category_dimension |-> category_dimension, year |-> year]
        Done(outcome, text) ==
            [tool |-> tool, args |-> args, outcome |-> outcome, text |-> text,
             detail |-> <<>>, built |-> FALSE, logs |-> <<>>, stmts |-> <<>>,
             events |-> <<>>, written |-> {}]
    IN
    IF x_metric \notin scatter_allowed_metrics
      THEN {Rejection(tool, args, "Invalid x_metric: ", <<x_metric>>)}
    ELSE IF y_metric \notin scatter_allowed_metrics
      THEN {Rejection(tool, args, "Invalid y_metric: ", <<y_metric>>)}
    ELSE IF category_dimension # "" /\ category_dimension \notin scatter_allowed_categories
      THEN {Rejection(tool, args, "Invalid category dimension: ", <<category_dimension>>)}
    ELSE
      LET T(row) == year = "None" \/ row.year = year
          df == SelectSeq(Dataset, T)
      IN  {Done("raised", "NameError"),
           IF df = <<>> THEN Done("returned", "No data found.")
                        ELSE Done("returned", "Scatter plot generated successfully.")}

\* ---------- aggregate_metric_structured ----------
structured_allowed_metrics == {"revenue", "cost", "profit", "roi", "margin"}

structured_allowed_aggs == {"sum", "avg", "min", "max", "count"}

\* A plausible slip: a column of the table that is no filter column is let through.
allowed_filter_columns_wide == {"year", "quarter_number", "month_number", "month_name",
                                "product", "country", "media_category", "campaign_name",
                                "campaign_category", "week"}

allowed_filter_columns == {"year", "quarter_number", "month_number", "month_name",
                           "product", "country", "media_category", "campaign_name",
                           "campaign_category"}

\* f"param_{col}"
param_name(col) == "param_" \o col

\* A plausible slip: the value is written into the query text.
condition_inline(col, value) == <<col, "=", "'", value, "'">>

\* f"{col} = :{param_name}"
condition(col, value) == <<col, "=", ":" \o param_name(col)>>

\* Texts the data source reads as an integer
IntLiterals == {"1", "2", "4", "6", "15", "1999", "2022", "2023"}

\* filters is the sequence of the (col, value) items of the dict, in dict order
aggregate_metric_structured(metric, agg, filters) ==
    LET tool == "aggregate_metric_structured"
        args == [metric |-> metric, agg |-> agg, filters |-> filters]
        bad == {i \in 1..Len(filters) : filters[i].col \notin allowed_filter_columns}
    IN
    IF metric \notin structured_allowed_metrics
      THEN {Rejection(tool, args, "Invalid metric. Allowed: ", <<structured_allowed_metrics>>)}
    ELSE IF agg \notin structured_allowed_aggs
      THEN {Rejection(tool, args, "Invalid aggregation. Allowed: ", <<structured_allowed_aggs>>)}
    ELSE IF bad # {}
      THEN {Rejection(tool, args, "Invalid filter column: ",
                      <<filters[CHOOSE i \in bad : \A j \in bad : i <= j].col>>)}
    ELSE
      LET conditions == [i \in 1..Len(filters) |->
                            condition(filters[i].col, filters[i].value)]
          params == [i \in 1..Len(filters) |->
                        [name |-> param_name(filters[i].col), value |-> filters[i].value]]
          query == <<"SELECT", agg, "(", metric, ")", "FROM", "marketing_data">>
                   \o (IF filters # <<>> THEN <<"WHERE">> \o Join(<<"AND">>, conditions)
                                         ELSE <<>>)
          stmt == [query |-> query, params |-> params]
          logs == <<[tool_name |-> tool,
                     metadata |-> [metric |-> metric, agg |-> agg, filters |-> filters]]>>
          \* a text that is no integer, bound to an integer column, is an error
          typed == \A i \in 1..Len(filters) :
                      filters[i].col \in IntColumns => filters[i].value \in IntLiterals
          T(row) == \A i \in 1..Len(filters) : row[filters[i].col] = filters[i].value
          result == <<Aggregate(agg, metric, SelectSeq(Dataset, T))>>
      IN  {ConnectFailure(tool, args, logs, <<"log">>),
           ExecuteFailure(tool, args, logs, <<"log">>, stmt)}
          \cup
          (IF ~typed \/ ~Aggregable(agg, metric) THEN {}
           ELSE IF result[1].null
             THEN {Returned(tool, args, logs, <<"log">>, stmt, <<>>,
                            "No results found.", <<>>, {})}
             ELSE {Returned(tool, args, logs, <<"log">>, stmt, <<>>,
                            "str(result[0])", <<result[1]>>, {})})

\* ------------------------------------------------------------------------
\* One tool call, applied to the state
\* ------------------------------------------------------------------------
Count(events, e) == Cardinality({i \in 1..Len(events) : events[i] = e})

Apply(c) ==
    /\ ncalls' = ncalls + 1
    /\ lastCall' = c
    /\ IF c.logs # <<>>
         THEN log_tool_usage(c.logs[1].tool_name, c.logs[1].metadata)
         ELSE UNCHANGED <<tool_usage_log, entries, clock, recorded>>
    /\ built' = IF c.built THEN built + 1 ELSE built
    /\ executed' = executed \o [i \in 1..Len(c.stmts) |->
                                  [tool |-> c.tool, args |-> c.args,
                                   query |-> c.stmts[i].query,
                                   params |-> c.stmts[i].params]]
    /\ openConns' = openConns + Count(c.events, "connect") - Count(c.events, "release")
    /\ files' = files \cup c.written
    /\ UNCHANGED <<clears, callerVars, sessionVars>>

\* Arguments the caller (a language model) may pass
MetricInputs == {"revenue", "week"}

AggInputs == {"sum", "median"}

GroupingInputs ==
    {[metric |-> "revenue", agg |-> "sum", group_by |-> "", where_clause |-> "",
      order_desc |-> TRUE, limit |-> 0],
     [metric |-> "revenue", agg |-> "avg", group_by |-> "country", where_clause |-> "",
      order_desc |-> FALSE, limit |-> 1],
     [metric |-> "revenue", agg |-> "count", group_by |-> "week",
      where_clause |-> "year = 2023", order_desc |-> TRUE, limit |-> 0],
     [metric |-> "revenue", agg |-> "sum", group_by |-> "country",
      where_clause |-> "year = 1999", order_desc |-> TRUE, limit |-> 0],
     [metric |-> "week", agg |-> "sum", group_by |-> "country", where_clause |-> "",
      order_desc |-> TRUE, limit |-> 0],
     [metric |-> "revenue", agg |-> "median", group_by |-> "", where_clause |-> "",
      order_desc |-> TRUE, limit |-> 0],
     [metric |-> "revenue", agg |-> "sum", group_by |-> "1; DROP TABLE x", where_clause |-> "",
      order_desc |-> TRUE, limit |-> 0]}

MetricsInputs == {<<"margin">>, <<"revenue", ",", " ", "cost">>,
                  <<"revenue", ",", "week">>}

TimeDimensionInputs == {"month_name", "year", "date", "week"}

CategoryInputs == {"", "country", "week"}

YearInputs == {"None", "1999"}

FiltersInputs ==
    {<<>>,
     <<[col |-> "country", value |-> "DK"]>>,
     <<[col |-> "country", value |-> "'; DROP TABLE x; --"]>>,
     <<[col |-> "year", value |-> "2023"], [col |-> "country", value |-> "SE"]>>,
     <<[col |-> "media_name", value |-> "search"]>>,
     <<[col |-> "year", value |-> "2023"], [col |-> "week", value |-> "2"]>>}

CallSimple ==
    /\ ncalls < MaxCalls
    /\ \E metric \in MetricInputs, agg \in AggInputs, where_clause \in WhereInputs :
         \E c \in aggregate_metric_simple_where(metric, agg, where_clause) : Apply(c)

CallGrouping ==
    /\ ncalls < MaxCalls
    /\ \E a \in GroupingInputs :
         \E c \in aggregate_with_grouping(a.metric, a.agg, a.group_by, a.where_clause,
                                          a.order_desc, a.limit) : Apply(c)

CallTrend ==
    /\ ncalls < MaxCalls
    /\ \E metrics \in MetricsInputs, time_dimension \in TimeDimensionInputs,
          where_clause \in WhereInputs :
         \E c \in plot_trend(metrics, time_dimension, where_clause) : Apply(c)

CallScatter ==
    /\ ncalls < MaxCalls
    /\ \E x_metric \in MetricInputs, y_metric \in MetricInputs,
          category_dimension \in CategoryInputs, year \in YearInputs :
         \E c \in plot_scatter_relationship(x_metric, y_metric, category_dimension, year) :
            Apply(c)

CallStructured ==
    /\ ncalls < MaxCalls
    /\ \E metric \in MetricInputs, agg \in AggInputs, filters \in FiltersInputs :
         \E c \in aggregate_metric_structured(metric, agg, filters) : Apply(c)

\* ------------------------------------------------------------------------
\* agent_script.py: chatbot_interaction
\* ------------------------------------------------------------------------
STOP_WORDS == {"exit"}

PredefinedInputs == {<<>>, <<"Revenue in 2023?">>,
                     <<"Plot cost by year", "Exit", "Revenue in 2023?">>}

UserInputs == {"Revenue in 2023?", "exit"}

Responses == {"answer"}

\* str.lower() on the texts above
Lower(text) ==
    CASE text = "Revenue in 2023?" -> "revenue in 2023?"
      [] text = "Plot cost by year" -> "plot cost by year"
      [] text = "Exit" -> "exit"
      [] OTHER -> text

\* One pass from the top of the while loop to agent.run
Ask(input) ==
    IF Lower(input) \in STOP_WORDS
      THEN /\ pc' = "returned"
           /\ UNCHANGED <<user_input, conversation, turns>>
      ELSE /\ turns < MaxTurns
           /\ user_input' = input
           /\ conversation' = Append(conversation, <<"User: ", input>>)
           /\ turns' = turns + 1
           /\ pc' = "running"

ReadInput ==
    /\ pc = "loop"
    /\ IF questions_iter.predefined
         THEN IF questions_iter.rest = <<>>
                THEN /\ pc' = "returned"
                     /\ UNCHANGED <<questions_iter, user_input, conversation, turns>>
                ELSE /\ questions_iter' = [questions_iter EXCEPT !.rest = Tail(@)]
                     /\ Ask(Head(questions_iter.rest))
         ELSE /\ \E input \in UserInputs : Ask(input)
              /\ UNCHANGED questions_iter
    /\ UNCHANGED <<interaction_log, logVars, callerVars, toolVars>>

\* agent.run executes code written by the model, which calls the tools given
\* to CodeAgent
AgentStep ==
    /\ pc = "running"
    /\ \/ CallSimple
       \/ CallGrouping
       \/ CallTrend

\* agent.run returns: the turn is recorded and the log cleared. (The loop has
\* no handler around agent.run; the model follows one call of
\* chatbot_interaction in which agent.run returns a response.)
FinishTurn ==
    /\ pc = "running"
    /\ \E response \in Responses :
         /\ conversation' = Append(conversation, <<"Agent: ", response>>)
         /\ interaction_log' = Append(interaction_log,
                                      [user_question |-> user_input,
                                       agent_response |-> response,
                                       tools_used |-> get_tool_log])
    /\ clear_tool_log("chatbot_interaction")
    /\ pc' = "loop"
    /\ UNCHANGED <<questions_iter, user_input, turns, callerVars, toolVars>>

\* ------------------------------------------------------------------------
\* Specifications
\* ------------------------------------------------------------------------
NoCall == [tool |-> "", args |-> <<>>, outcome |-> "none", text |-> "",
           detail |-> <<>>, built |-> FALSE, logs |-> <<>>, stmts |-> <<>>,
           events |-> <<>>, written |-> {}]

Init ==
    /\ tool_usage_log = <<>>
    /\ entries = <<>>
    /\ clock = 0
    /\ held = <<>>
    /\ recorded = <<>>
    /\ mutations = 0
    /\ pc = "loop"
    /\ \E p \in PredefinedInputs :
          questions_iter = [predefined |-> p # <<>>, rest |-> p]
    /\ user_input = ""
    /\ conversation = <<>>
    /\ interaction_log = <<>>
    /\ turns = 0
    /\ built = 0
    /\ clears = <<>>
    /\ ncalls = 0
    /\ lastCall = NoCall
    /\ executed = <<>>
    /\ openConns = 0
    /\ files = {}

\* The session: chatbot_interaction drives the agent and its three tools.
Next == ReadInput \/ AgentStep \/ FinishTurn

Spec == Init /\ [][Next]_vars

\* The audit log under record, snapshot and reset calls.
NextLog == Record \/ Snapshot \/ Reset

SpecLog == Init /\ [][NextLog]_vars

\* The audit log under a caller that also changes the lists it was given.
NextCaller == Record \/ Snapshot \/ Reset \/ HeldAppend \/ HeldPop \/ HeldSetField

SpecCaller == Init /\ [][NextCaller]_vars

\* The five tools of tools.py called directly, in any order.
NextTools == CallSimple \/ CallGrouping \/ CallTrend \/ CallScatter \/ CallStructured

SpecTools == Init /\ [][NextTools]_vars

\* ------------------------------------------------------------------------
\* Properties
\* ------------------------------------------------------------------------

\* The sets the specification names
NumericMetrics == {"revenue", "cost", "profit", "roi", "margin"}

AggregationFunctions == {"sum", "avg", "min", "max", "count"}

FilterGroupDimensions == {"year", "quarter_number", "month_number", "month_name",
                          "country", "media_category", "media_name", "campaign_name",
                          "campaign_category", "product"}

TimeDimensions == {"month_name", "quarter_number", "year", "date"}

AggregateTools == {"aggregate_metric_simple_where", "aggregate_with_grouping",
                   "aggregate_metric_structured"}

\* The step is one tool call; lastCall' tells what the call did.
ToolStep == ncalls' = ncalls + 1

IsPrefix(a, b) == Len(a) <= Len(b) /\ SubSeq(b, 1, Len(a)) = a

\* The metrics a call of plot_trend requests
RequestedMetrics(metrics) == LET split == Split(metrics)
                             IN  [i \in 1..Len(split) |-> Strip(split[i])]

\* The call names a metric outside the numeric metrics, or (aggregate tools)
\* an aggregation outside the aggregation functions.
BadMetricOrAgg(c) ==
    CASE c.tool \in AggregateTools ->
           c.args.metric \notin NumericMetrics \/ c.args.agg \notin AggregationFunctions
      [] c.tool = "plot_trend" ->
           \E i \in 1..Len(RequestedMetrics(c.args.metrics)) :
              ~InSet(RequestedMetrics(c.args.metrics)[i], NumericMetrics)
      [] c.tool = "plot_scatter_relationship" ->
           c.args.x_metric \notin NumericMetrics \/ c.args.y_metric \notin NumericMetrics
      [] OTHER -> FALSE

\* C1: a call of any of the five tools with a metric outside the numeric
\* metrics, or with an aggregation outside the aggregation functions, returns
\* a rejection text; during the call no statement reaches the data source and
\* no connection is acquired or asked for.
C1_BadMetricOrAggRejected ==
    [][ToolStep /\ BadMetricOrAgg(lastCall') =>
          /\ lastCall'.outcome = "rejected"
          /\ executed' = executed
          /\ openConns' = openConns
          /\ lastCall'.events = <<>>]_vars

\* C1 witness: after a call that executed a statement, a call with a bad
\* metric or aggregation was rejected.
C1_Witness ==
    /\ ncalls = 2
    /\ Len(executed) = 1
    /\ BadMetricOrAgg(lastCall)
    /\ lastCall.outcome = "rejected"
    /\ lastCall.tool = "plot_trend"

\* C2 (as claimed): a call rejected by validation appends one entry to the
\* usage log, and that entry names the tool called.
C2_RejectionLogged ==
    [][ToolStep /\ lastCall'.outcome = "rejected" =>
          /\ Len(tool_usage_log') = Len(tool_usage_log) + 1
          /\ entries'[Last(tool_usage_log')].tool_name = lastCall'.tool]_vars

\* C3 (as claimed): within a turn the length of the usage log equals the
\* number of tool calls that passed validation and reached query construction.
C3_OneEntryPerBuiltCall == Len(tool_usage_log) = built

\* C4: the list a get_tool_log call returns holds exactly the entries of the
\* log_tool_usage calls made since the last clear_tool_log (none directly
\* after a clear), in call order, each with the tool name and metadata passed.
C4_SnapshotIsRecordsSinceReset ==
    [][Len(held') = Len(held) + 1 =>
          LET snap == Last(held')
          IN  /\ Len(snap) = Len(recorded)
              /\ \A i \in 1..Len(snap) :
                    /\ entries'[snap[i]].tool_name = recorded[i].tool_name
                    /\ entries'[snap[i]].metadata = recorded[i].metadata]_vars

\* C4 witness: one record, a reset, a second record, then a snapshot that
\* holds only the second entry.
C4_Witness ==
    /\ Len(entries) = 2
    /\ clears # <<>>
    /\ held # <<>>
    /\ Last(held) = <<2>>
    /\ tool_usage_log = <<2>>

C6_LogUntouchedByCaller == Deref(get_tool_log) = recorded

\* C7 (as claimed): a call of aggregate_with_grouping whose non-empty
\* group_by is outside the filter/group dimensions is rejected and hands no
\* statement to the data source.
C7_BadGroupByRejected ==
    [][/\ ToolStep
       /\ lastCall'.tool = "aggregate_with_grouping"
       /\ lastCall'.args.group_by # ""
       /\ lastCall'.args.group_by \notin FilterGroupDimensions
       => /\ lastCall'.outcome = "rejected"
          /\ executed' = executed]_vars

\* The keys of a filters mapping, in order
Keys(filters) == [i \in 1..Len(filters) |-> filters[i].col]

Values(filters) == [i \in 1..Len(filters) |-> filters[i].value]

StructuredStatements ==
    {i \in 1..Len(executed) : executed[i].tool = "aggregate_metric_structured"}

\* C8: two statements aggregate_metric_structured hands to the data source
\* for the same metric, agg and filter keys have the same query text; the
\* filter values are the bound parameters, in key order, and no token of the
\* query text is a filter value.
C8_ValuesOnlyInParams ==
    /\ \A i, j \in StructuredStatements :
          /\ executed[i].args.metric = executed[j].args.metric
          /\ executed[i].args.agg = executed[j].args.agg
          /\ Keys(executed[i].args.filters) = Keys(executed[j].args.filters)
          => executed[i].query = executed[j].query
    /\ \A i \in StructuredStatements :
          /\ [k \in 1..Len(executed[i].params) |-> executed[i].params[k].value]
               = Values(executed[i].args.filters)
          /\ Range(Values(executed[i].args.filters)) \cap Range(executed[i].query) = {}

\* C8 witness: two statements were executed for the same keys, one of them
\* with a value made of SQL metacharacters.
C8_Witness ==
    \E i, j \in StructuredStatements :
       /\ Keys(executed[i].args.filters) = Keys(executed[j].args.filters)
       /\ executed[i].args.metric = executed[j].args.metric
       /\ executed[i].args.agg = executed[j].args.agg
       /\ Values(executed[i].args.filters) = <<"'; DROP TABLE x; --">>
       /\ Values(executed[j].args.filters) = <<"DK">>

\* C9 (as claimed): a call of plot_trend passes validation and reaches query
\* execution exactly when every requested metric is a numeric metric and the
\* time dimension is one of month_name, quarter_number, year, date.
C9_TrendAcceptsExactly ==
    lastCall.tool = "plot_trend" =>
       ((lastCall.outcome # "rejected" /\ lastCall.built)
          <=> (/\ ~BadMetricOrAgg(lastCall)
               /\ lastCall.args.time_dimension \in TimeDimensions))

\* The call is one of aggregate_metric_structured with a valid metric and agg
StructuredCall(c) ==
    /\ c.tool = "aggregate_metric_structured"
    /\ c.args.metric \in NumericMetrics
    /\ c.args.agg \in AggregationFunctions

\* C10 (as claimed): aggregate_metric_structured accepts a filters mapping
\* exactly when every key is a filter/group dimension, and otherwise returns
\* the invalid-filter-column rejection.
C10_FiltersAcceptedExactly ==
    StructuredCall(lastCall) =>
       IF Range(Keys(lastCall.args.filters)) \subseteq FilterGroupDimensions
         THEN lastCall.outcome # "rejected"
         ELSE lastCall.outcome = "rejected" /\ lastCall.text = "Invalid filter column: "

\* The filter columns of the docstring of aggregate_metric_structured
DocumentedFilterColumns == FilterGroupDimensions \ {"media_name"}

\* C10 (amended): with a valid metric and agg, aggregate_metric_structured
\* accepts a filters mapping exactly when every key is one of year,
\* quarter_number, month_number, month_name, country, media_category,
\* campaign_name, campaign_category, product (media_name is not accepted);
\* otherwise it returns the invalid-filter-column rejection naming the first
\* key outside that set, and no statement reaches the data source.
C10_FiltersAcceptedExactlyAmended ==
    [][ToolStep /\ StructuredCall(lastCall') =>
          LET keys == Keys(lastCall'.args.filters)
              out == {i \in 1..Len(keys) : keys[i] \notin DocumentedFilterColumns}
          IN  IF out = {}
                THEN lastCall'.outcome # "rejected" /\ lastCall'.built
                ELSE /\ lastCall'.outcome = "rejected"
                     /\ lastCall'.text = "Invalid filter column: "
                     /\ lastCall'.detail = <<keys[CHOOSE i \in out : \A j \in out : i <= j]>>
                     /\ executed' = executed
                     /\ tool_usage_log' = tool_usage_log]_vars

\* C10 witness: after an accepted call, a call whose second key is outside
\* the set was rejected.
C10_Witness ==
    /\ StructuredCall(lastCall)
    /\ lastCall.outcome = "rejected"
    /\ lastCall.detail = <<"week">>
    /\ Len(executed) = 1
    /\ executed[1].tool = "aggregate_metric_structured"
    /\ executed[1].args.filters # <<>>

\* C11 (as claimed): aggregate_metric_simple_where, called with a valid
\* metric and agg and a predicate that selects no row, returns its "no
\* results" sentinel text and not a rendered aggregate value.
C11_ZeroRowsGiveSentinel ==
    /\ lastCall.tool = "aggregate_metric_simple_where"
    /\ lastCall.outcome = "returned"
    /\ RowsWhere(lastCall.args.where_clause) = <<>>
    => lastCall.text \in {"No results.", "No results found."}

\* A file name ends in the given extension
HasExtension(path, ext) == path # <<>> /\ Last(path) = ext

\* C12: a call of plot_trend that returns does so with "No data found." and
\* without writing any file when the query yields no row, and with the
\* success confirmation after writing both the .csv and the .png file when
\* it yields rows.
C12_ArtifactsOnlyForData ==
    [][/\ ToolStep
       /\ lastCall'.tool = "plot_trend"
       /\ lastCall'.outcome = "returned"
       => IF RowsWhere(lastCall'.args.where_clause) = <<>>
            THEN /\ lastCall'.text = "No data found."
                 /\ files' = files
            ELSE /\ lastCall'.text = "Plot generated successfully."
                 /\ lastCall'.written \subseteq files'
                 /\ \E csv, png \in lastCall'.written :
                       /\ HasExtension(csv, ".csv")
                       /\ HasExtension(png, ".png")
                       /\ SubSeq(csv, 2, Len(csv) - 1) = SubSeq(png, 2, Len(png) - 1)]_vars

\* C12 witness: one call wrote its two files, and a later call whose
\* predicate selects no row returned the sentinel.
C12_Witness ==
    /\ ncalls = 2
    /\ Cardinality(files) = 2
    /\ lastCall.tool = "plot_trend"
    /\ lastCall.text = "No data found."
    /\ lastCall.args.where_clause = "year = 1999"

\* The place of a month in the calendar
CalendarMonth(name) ==
    CASE name = "January" -> 1 [] name = "February" -> 2 [] name = "March" -> 3
      [] name = "April" -> 4 [] name = "May" -> 5 [] name = "June" -> 6
      [] name = "July" -> 7 [] name = "August" -> 8 [] name = "September" -> 9
      [] name = "October" -> 10 [] name = "November" -> 11 [] name = "December" -> 12

\* C13: the series plot_trend produces for time dimension month_name holds
\* one line for each month the predicate leaves in the data, in strictly
\* increasing calendar order.
C13_MonthsInCalendarOrder ==
    /\ lastCall.tool = "plot_trend"
    /\ lastCall.args.time_dimension = "month_name"
    /\ lastCall.text = "Plot generated successfully."
    => LET series == lastCall.detail
           left == RowsWhere(lastCall.args.where_clause)
       IN  /\ \A i, j \in 1..Len(series) :
                 i < j => CalendarMonth(series[i].dim) < CalendarMonth(series[j].dim)
           /\ {series[i].dim : i \in 1..Len(series)}
                = {left[i].month_name : i \in 1..Len(left)}

\* C13 witness: the series of the two months of 2023, January before April,
\* after a query over the months of all years.
C13_Witness ==
    /\ lastCall.tool = "plot_trend"
    /\ lastCall.text = "Plot generated successfully."
    /\ [i \in 1..Len(lastCall.detail) |-> lastCall.detail[i].dim]
         = <<"January", "April">>
    /\ \E i \in 1..Len(executed) :
          /\ executed[i].tool = "plot_trend"
          /\ executed[i].args.time_dimension = "month_name"
          /\ executed[i].args.where_clause = ""

\* The place of the first event e in a call's events, 0 when there is none
FirstAt(events, e) ==
    IF \E i \in 1..Len(events) : events[i] = e
      THEN CHOOSE i \in 1..Len(events) :
              events[i] = e /\ \A j \in 1..(i - 1) : events[j] # e
      ELSE 0

\* C14: between tool calls no connection is checked out; a call that hands a
\* statement to the data source acquires its connection first and releases
\* it afterwards, also when the execution fails.
C14_NoConnectionHeld ==
    /\ openConns = 0
    /\ Count(lastCall.events, "connect") = Count(lastCall.events, "release")
    /\ lastCall.stmts # <<>> =>
          /\ 0 < FirstAt(lastCall.events, "connect")
          /\ FirstAt(lastCall.events, "connect") < FirstAt(lastCall.events, "execute")
          /\ FirstAt(lastCall.events, "execute") < FirstAt(lastCall.events, "release")

\* C14 witness: two calls handed a statement to the data source, the second
\* one failed there, and no connection is checked out.
C14_Witness ==
    /\ ncalls = 2
    /\ Len(executed) = 2
    /\ lastCall.tool \in AggregateTools
    /\ lastCall.outcome = "raised"
    /\ lastCall.text = "DBAPIError"
    /\ openConns = 0

\* C15: a call of one of the three aggregate tools that passes validation
\* appends exactly one entry, naming the tool, and does so before it asks
\* for a connection or executes its statement; a data-source failure leaves
\* the tool as an exception after at most one execution, with that entry in
\* the log.
C15_LoggedBeforeExecution ==
    [][/\ ToolStep
       /\ lastCall'.tool \in AggregateTools
       /\ lastCall'.outcome # "rejected"
       => /\ Len(tool_usage_log') = Len(tool_usage_log) + 1
          /\ IsPrefix(tool_usage_log, tool_usage_log')
          /\ entries'[Last(tool_usage_log')].tool_name = lastCall'.tool
          /\ entries'[Last(tool_usage_log')].metadata.metric = lastCall'.args.metric
          /\ lastCall'.events[1] = "log"
          /\ Count(lastCall'.events, "log") = 1
          /\ Count(lastCall'.events, "execute") <= 1
          /\ Len(executed') <= Len(executed) + 1
          /\ lastCall'.text \in {"OperationalError", "DBAPIError"} =>
                lastCall'.outcome = "raised"]_vars

\* C15 witness: the second of two logged calls failed in the data source and
\* both entries are in the log.
C15_Witness ==
    /\ lastCall.tool = "aggregate_with_grouping"
    /\ lastCall.outcome = "raised"
    /\ lastCall.text = "DBAPIError"
    /\ Len(tool_usage_log) = 2
    /\ entries[tool_usage_log[2]].tool_name = "aggregate_with_grouping"

====
